---- MODULE Spec2Model ----
(***************************************************************************)
(* Model of modules/tripleliftBidAdapter.js: the three entry points of the *)
(* adapter object `spec` (isBidRequestValid, buildRequests,                *)
(* interpretResponse) and the helpers they call.                           *)
(*                                                                         *)
(* The adapter keeps no state between calls, so a behaviour of the model   *)
(* is one call: Init draws the operation, its arguments and the browser    *)
(* environment it runs in, and one action runs the whole handler, leaving  *)
(* its return value, the exception it let escape (if any), the log entries *)
(* it emitted and the arguments as the handler mutated them.               *)
(* Code of src/utils and src/Renderer is not part of the adapter file; the *)
(* helpers called from it are modelled by their documented behaviour.      *)
(*                                                                         *)
(* JavaScript values.  An object is a record; a property the object does   *)
(* not carry is a field the record does not have.  The primitives that a   *)
(* property may hold instead of an object are the records Undefined, Null  *)
(* and False.  A string is a sequence of units: a unit is one reserved     *)
(* character ("&", "=", "?", ",") or a chunk of unreserved text.           *)
(***************************************************************************)
EXTENDS Integers, Sequences, FiniteSets, TLC

VARIABLES
    pc,    \* "call" before the handler runs, then "returned" or "threw"
    op,    \* the entry point called
    args,  \* its arguments, as the handler leaves them
    env,   \* what the handler reads from the browser and from src/Renderer
    ret,   \* the value returned
    logs   \* the log entries emitted, in order

vars == <<pc, op, args, env, ret, logs>>

-----------------------------------------------------------------------------
(* JavaScript values *)

Undefined == [js |-> "undefined"]
Null == [js |-> "null"]
False == [js |-> "false"]

Has(o, f) == f \in DOMAIN o

\* o[f] as JavaScript reads it: undefined when the property is missing
Get(o, f) == IF Has(o, f) THEN o[f] ELSE Undefined

\* o.f = v
Put(o, f, v) == (f :> v) @@ o

\* a value on which a property read raises a TypeError
IsNullish(v) == v = Undefined \/ v = Null

\* a string value and a number value (the number kept as its decimal text)
Str(units) == [str |-> units]
Num(text) == [num |-> text]

\* ToBoolean: undefined, null, false, '' and 0 are falsy, an object is truthy
Truthy(v) ==
    IF Has(v, "js") THEN FALSE
    ELSE IF Has(v, "str") THEN v.str # <<>>
    ELSE IF Has(v, "num") THEN v.num # "0"
    ELSE TRUE

\* String(v) of a string or a number, as units
ToStr(v) == IF Has(v, "str") THEN v.str ELSE <<v.num>>

-----------------------------------------------------------------------------
(* Program constants *)

BIDDER_CODE == "triplelift"
SUPPORTED_AD_TYPES == {"banner", "video", "native"}
URL == <<"//tlx.3lift.com/header/auction", "?">>

-----------------------------------------------------------------------------
(* spec.isBidRequestValid *)

isBidRequestValid_NoInvCode(bid) ==
    \/ Truthy(Get(bid.params, "inventoryCode"))
    \/ Truthy(Get(bid.params, "member"))

\* line 44: !!(inventoryCode || (member && invCode))
isBidRequestValid(bid) ==
    \/ Truthy(Get(bid.params, "inventoryCode"))
    \/ (Truthy(Get(bid.params, "member")) /\ Truthy(Get(bid.params, "invCode")))

-----------------------------------------------------------------------------
(* Helpers of src/utils that buildRequests and newBid call *)

\* utils.getBidIdParameter(key, paramsObj): the parameter, or '' when it is
\* missing or falsy
getBidIdParameter(key, paramsObj) ==
    IF Truthy(paramsObj) /\ Truthy(Get(paramsObj, key))
    THEN paramsObj[key]
    ELSE Str(<<>>)

\* encodeURIComponent on one unit: the reserved characters are escaped
EncodeUnit(u) ==
    CASE u = "&" -> "%26"
      [] u = "=" -> "%3D"
      [] u = "?" -> "%3F"
      [] u = "," -> "%2C"
      [] OTHER -> u

encodeURIComponent(units) == [i \in 1..Len(units) |-> EncodeUnit(units[i])]

\* utils.tryAppendQueryString(existingUrl, key, value): key=value& is
\* appended when value is truthy
tryAppendQueryString(existingUrl, key, value) ==
    IF Truthy(value)
    THEN existingUrl \o <<key, "=">> \o encodeURIComponent(ToStr(value)) \o <<"&">>
    ELSE existingUrl

\* one size as utils.parseGPTSingleSizeArray writes it: W x H
SizeUnits(size) == <<ToString(size[1]), "x", ToString(size[2])>>

\* utils.parseSizesInput(sizeObj): the list of WxH strings; a single [w, h]
\* pair is one size, undefined gives the empty list
parseSizesInput(sizeObj) ==
    IF Has(sizeObj, "js") THEN <<>>
    ELSE IF Has(sizeObj, "pair") THEN <<SizeUnits(sizeObj.pair)>>
    ELSE [i \in 1..Len(sizeObj.list) |-> SizeUnits(sizeObj.list[i])]

\* Array.prototype.toString of a list of strings: joined with ','
RECURSIVE JoinComma(_)
JoinComma(strs) ==
    IF strs = <<>> THEN <<>>
    ELSE IF Len(strs) = 1 THEN strs[1]
    ELSE strs[1] \o <<",">> \o JoinComma(Tail(strs))

\* encodeURI on one unit: a quote or a space is escaped, the reserved
\* characters of a url are kept
EncodeURIUnit(u) ==
    CASE u = "\"" -> "%22"
      [] u = " " -> "%20"
      [] OTHER -> u

encodeURI(units) == [i \in 1..Len(units) |-> EncodeURIUnit(units[i])]

\* utils.createTrackPixelHtml(url): '' for a falsy url, else the hidden
\* div holding an img whose src is the url
PixelOpen == "<div style=\"position:absolute;left:0px;top:0px;visibility:hidden;\"><img src=\""
PixelClose == "\"></div>"
createTrackPixelHtml(url) ==
    IF ~Truthy(url) THEN <<>>
    ELSE <<PixelOpen>> \o encodeURI(url.str) \o <<PixelClose>>

-----------------------------------------------------------------------------
(* isFlashEnabled, lines 129-143 *)

isFlashEnabled(e) ==
    IF e.activeX
    THEN Num("1")
    ELSE IF e.flashMime = "enabled" THEN Num("1") ELSE Num("0")

-----------------------------------------------------------------------------
(* spec.buildRequests, lines 53-94 *)

\* lines 82-84: drop the last character when it is '&'
TrimTrailingAmp(tlCall) ==
    IF tlCall # <<>> /\ tlCall[Len(tlCall)] = "&"
    THEN SubSeq(tlCall, 1, Len(tlCall) - 1)
    ELSE tlCall

\* line 57 reading the floor from the bid request itself
FloorOf_FromRequest(bidRequest) == getBidIdParameter("floor", bidRequest)

\* line 57: the floor is read from the bid request's params
FloorOf(bidRequest) == getBidIdParameter("floor", bidRequest.params)

\* ToBoolean of an array: an array is an object, truthy even when empty
TruthyArray(list) == TRUE

\* lines 72-75: size=<list>& is appended when the parsed list is truthy
AppendSizes(tlCall, sizes) ==
    LET sizeQueryString == parseSizesInput(sizes)
    IN IF TruthyArray(sizeQueryString)
       THEN tlCall \o <<"size", "=">> \o JoinComma(sizeQueryString) \o <<"&">>
       ELSE tlCall

buildRequestsUrl(bidRequests, e) ==
    LET inventoryCode == getBidIdParameter("inventoryCode", bidRequests[1].params)
        floor == FloorOf(bidRequests[1])
        c0 == <<e.protocol>> \o URL
        c1 == tryAppendQueryString(c0, "lib", Str(<<"prebid">>))
        c2 == tryAppendQueryString(c1, "v", Str(<<"$prebid.version$">>))
        c3 == tryAppendQueryString(c2, "inv_code", inventoryCode)
        c4 == tryAppendQueryString(c3, "floor", floor)
        c5 == tryAppendQueryString(c4, "fe", isFlashEnabled(e))
        c6 == AppendSizes(c5, Get(bidRequests[1], "sizes"))
        c7 == tryAppendQueryString(c6, "referrer", e.referrer)
    IN TrimTrailingAmp(c7)

-----------------------------------------------------------------------------
(* Log entries: the utils function called and what it reports *)

LogEntry(fn, what) == [fn |-> fn, what |-> what]

-----------------------------------------------------------------------------
(* newRenderer, lines 145-168.  fault names the call into src/Renderer     *)
(* that raises, "none" when none does.  The result carries the renderer,   *)
(* the log entries emitted and whether an exception escaped.               *)

newRenderer(adUnitCode, rtbBid, fault) ==
    LET installed == [id |-> Get(rtbBid, "renderer_id"),
                      url |-> Get(rtbBid, "renderer_url"),
                      config |-> "Triplelift Outstream Video Ad via Prebid.js",
                      loaded |-> FALSE]
        warned == IF fault = "setRender"
                  THEN <<LogEntry("logWarn", "Prebid Error calling setRender on renderer")>>
                  ELSE <<>>
        rendered == IF fault = "setRender" THEN installed
                    ELSE Put(installed, "render", "outstreamRender")
    IN IF fault = "install"
       THEN [threw |-> TRUE, logs |-> <<>>]
       ELSE IF fault = "setEventHandlers"
       THEN [threw |-> TRUE, logs |-> warned]
       ELSE [threw |-> FALSE, logs |-> warned,
             renderer |-> [handlers |-> {"impression", "loaded", "ended"},
                           endedHides |-> adUnitCode] @@ rendered]

-----------------------------------------------------------------------------
(* newBid, lines 202-267.  j is the place of rtbBid in serverBid.ads.  The  *)
(* result carries the bid, the log entries, whether an exception escaped,  *)
(* and serverBid as the call left it (the outstream branch writes to it).  *)

\* line 222 attaching a renderer to every video bid
IsOutstream_Always(rtbBid) == TRUE

\* line 222: if (rtbBid.renderer_url)
IsOutstream(rtbBid) == Has(rtbBid, "renderer_url") /\ rtbBid.renderer_url # ""

\* lines 203-211
BaseBid(serverBid, rtbBid) ==
    [requestId |-> serverBid.uuid,
     cpm |-> rtbBid.cpm,
     creativeId |-> rtbBid.creative_id,
     dealId |-> Get(rtbBid, "deal_id"),
     currency |-> "USD",
     netRevenue |-> TRUE,
     ttl |-> 300]

\* lines 214-220
VideoFields(video) ==
    [width |-> video.player_width,
     height |-> video.player_height,
     vastUrl |-> video.asset_url,
     descriptionUrl |-> video.asset_url,
     ttl |-> 3600]

\* x && x.f for an optional object x
AndGet(o, f, g) == IF Has(o, f) THEN Get(o[f], g) ELSE Undefined

\* lines 232-250, given a native payload that has a link
NativeFields(nativeAd) ==
    [title |-> Get(nativeAd, "title"),
     body |-> Get(nativeAd, "desc"),
     cta |-> Get(nativeAd, "ctatext"),
     sponsoredBy |-> Get(nativeAd, "sponsored"),
     image |-> [url |-> AndGet(nativeAd, "main_img", "url"),
                height |-> AndGet(nativeAd, "main_img", "height"),
                width |-> AndGet(nativeAd, "main_img", "width")],
     icon |-> [url |-> AndGet(nativeAd, "icon", "url"),
               height |-> AndGet(nativeAd, "icon", "height"),
               width |-> AndGet(nativeAd, "icon", "width")],
     clickUrl |-> Get(nativeAd.link, "url"),
     clickTrackers |-> Get(nativeAd.link, "click_trackers"),
     impressionTrackers |-> Get(nativeAd, "impression_trackers")]

\* line 258: whether rtb.trackers[0].impression_urls[0] raises a TypeError
TrackerReadThrows(rtb) ==
    \/ ~Has(rtb, "trackers")
    \/ rtb.trackers = <<>>
    \/ ~Has(rtb.trackers[1], "impression_urls")

\* line 258, when it does not raise: the first url, undefined for an empty list
FirstImpressionUrl(rtb) ==
    IF rtb.trackers[1].impression_urls = <<>> THEN Undefined
    ELSE Str(rtb.trackers[1].impression_urls[1])

\* lines 223-228, the outstream branch
OutstreamBid(bid, serverBid, rtbBid, fault) ==
    LET r == newRenderer(Get(bid, "adUnitCode"), rtbBid, fault)
        first == serverBid.ads[1]
        withAd == Put(serverBid, "ad", first)
        video == IF Get(first, "rtb") = False THEN Undefined
                 ELSE Get(first.rtb, "video")
        firstV == Put(first, "video", video)
        after == [ad |-> firstV,
                  ads |-> [k \in 1..Len(serverBid.ads) |->
                             IF k = 1 THEN firstV ELSE serverBid.ads[k]]] @@ serverBid
    IN IF r.threw
       THEN [threw |-> TRUE, logs |-> r.logs, serverBid |-> serverBid]
       ELSE IF IsNullish(Get(first, "rtb"))
       THEN [threw |-> TRUE, logs |-> r.logs, serverBid |-> withAd]
       ELSE [threw |-> FALSE, logs |-> r.logs, serverBid |-> after,
             bid |-> [adResponse |-> after, renderer |-> r.renderer] @@ bid]

\* lines 252-263, the banner branch given a banner payload
BannerBid(bid, rtb) ==
    LET b == [width |-> rtb.banner.width,
              height |-> rtb.banner.height,
              ad |-> rtb.banner.content] @@ bid
    IN IF TrackerReadThrows(rtb)
       THEN [bid |-> b,
             logs |-> <<LogEntry("logError", "Error appending tracking pixel")>>]
       ELSE [bid |-> [b EXCEPT !.ad = @ \o createTrackPixelHtml(FirstImpressionUrl(rtb))],
             logs |-> <<>>]

newBid(serverBid, j, fault) ==
    LET rtbBid == serverBid.ads[j]
        rtb == rtbBid.rtb
        bid == BaseBid(serverBid, rtbBid)
    IN IF Has(rtb, "video")
       THEN LET vbid == VideoFields(rtb.video) @@ bid
            IN IF IsOutstream(rtbBid)
               THEN OutstreamBid(vbid, serverBid, rtbBid, fault)
               ELSE [threw |-> FALSE, logs |-> <<>>, serverBid |-> serverBid, bid |-> vbid]
       ELSE IF Has(rtb, "native")
       THEN IF ~Has(rtb.native, "link")
            THEN [threw |-> TRUE, logs |-> <<>>, serverBid |-> serverBid]
            ELSE [threw |-> FALSE, logs |-> <<>>, serverBid |-> serverBid,
                  bid |-> Put(bid, "native", NativeFields(rtb.native))]
       ELSE IF ~Has(rtb, "banner")
       THEN [threw |-> TRUE, logs |-> <<>>, serverBid |-> serverBid]
       ELSE LET b == BannerBid(bid, rtb)
            IN [threw |-> FALSE, logs |-> b.logs, serverBid |-> serverBid, bid |-> b.bid]

-----------------------------------------------------------------------------
(* getRtbBid, lines 371-373, and parseMediaType, lines 431-440 *)

\* the places of the ads of a tag whose rtb is truthy
RtbPlaces(ads) == {k \in 1..Len(ads) : Truthy(Get(ads[k], "rtb"))}

Min(S) == CHOOSE x \in S : \A y \in S : x <= y

\* tag && tag.ads && tag.ads.length && find(tag.ads, ad => ad.rtb), as the
\* place of the ad found in tag.ads; 0 when the result is falsy
getRtbBid(tag) ==
    IF ~Truthy(tag) THEN 0
    ELSE IF ~Has(tag, "ads") THEN 0
    ELSE IF Len(tag.ads) = 0 THEN 0
    ELSE IF RtbPlaces(tag.ads) = {} THEN 0
    ELSE Min(RtbPlaces(tag.ads))

parseMediaType(rtbBid) ==
    IF rtbBid.ad_type = "video" THEN "video"
    ELSE IF rtbBid.ad_type = "native" THEN "native"
    ELSE "banner"

-----------------------------------------------------------------------------
(* spec.interpretResponse, lines 103-126 *)

\* line 117 without the cpm test
IsBiddable_AnyCpm(rtbBid) == rtbBid.ad_type \in SUPPORTED_AD_TYPES

\* line 117: rtbBid.cpm !== 0 && includes(SUPPORTED_AD_TYPES, rtbBid.ad_type)
IsBiddable(rtbBid) == rtbBid.cpm # 0 /\ rtbBid.ad_type \in SUPPORTED_AD_TYPES

\* line 106 testing only for a missing body
IsErrorResponse_BodyOnly(body) == ~Truthy(body)

\* line 106: !serverResponse || serverResponse.error
IsErrorResponse(body) == ~Truthy(body) \/ Truthy(Get(body, "error"))

\* lines 107-109: the one entry logged for an error response
ErrorLog(body, bidderRequest) ==
    LogEntry("logError",
             IF Truthy(body) /\ Truthy(Get(body, "error"))
             THEN <<"in response for", bidderRequest.bidderCode, "adapter", ":">> \o body.error.str
             ELSE <<"in response for", bidderRequest.bidderCode, "adapter">>)

\* lines 114-123: the forEach over serverResponse.tags from place i on.
\* acc carries the bids pushed, the log entries, the tags as written to so
\* far, and whether an exception has ended the loop.
RECURSIVE EachTag(_, _, _)
EachTag(i, acc, fault) ==
    IF i > Len(acc.tags) \/ acc.threw THEN acc
    ELSE LET serverBid == acc.tags[i]
             j == getRtbBid(serverBid)
         IN IF j = 0 \/ ~IsBiddable(serverBid.ads[j])
            THEN EachTag(i + 1, acc, fault)
            ELSE LET n == newBid(serverBid, j, fault)
                     tags == [acc.tags EXCEPT ![i] = n.serverBid]
                 IN IF n.threw
                    THEN [acc EXCEPT !.threw = TRUE, !.logs = @ \o n.logs, !.tags = tags]
                    ELSE EachTag(i + 1,
                                 [acc EXCEPT
                                    !.bids = Append(@, Put(n.bid, "mediaType",
                                                 parseMediaType(serverBid.ads[j]))),
                                    !.logs = @ \o n.logs,
                                    !.tags = tags],
                                 fault)

\* the whole of interpretResponse on the response body: the bids returned,
\* the entries logged, whether an exception escaped, the body as left
interpretResponseBody(body, bidderRequest, fault) ==
    IF IsErrorResponse(body)
    THEN [bids |-> <<>>, logs |-> <<ErrorLog(body, bidderRequest)>>,
          threw |-> FALSE, body |-> body]
    ELSE IF ~Has(body, "tags")
    THEN [bids |-> <<>>, logs |-> <<>>, threw |-> FALSE, body |-> body]
    ELSE LET r == EachTag(1, [bids |-> <<>>, logs |-> <<>>, threw |-> FALSE,
                              tags |-> body.tags], fault)
         IN [bids |-> r.bids, logs |-> r.logs, threw |-> r.threw,
             body |-> [body EXCEPT !.tags = r.tags]]

-----------------------------------------------------------------------------
(* Bounds and inputs *)

MaxSizes == 2
MaxAds == 2
MaxTags == 2

SeqUpTo(S, n) == UNION {[1..k -> S] : k \in 0..n}

\* an object with property f drawn from vs, or without it
Opt(f, vs) == {<<>>} \cup {(f :> v) : v \in vs}

\* bid requests for isBidRequestValid
ValidatorBids ==
    {[bidder |-> BIDDER_CODE, params |-> a @@ b @@ c] :
        a \in Opt("inventoryCode", {Str(<<>>), Str(<<"abc">>)}),
        b \in Opt("member", {Str(<<>>), Str(<<"958">>)}),
        c \in Opt("invCode", {Str(<<>>), Str(<<"xyz">>)})}

SizePairs == {<<300, 250>>, <<728, 90>>}

SizeValues ==
    {[pair |-> q] : q \in SizePairs} \cup {[list |-> l] : l \in SeqUpTo(SizePairs, MaxSizes)}

\* first bid requests for buildRequests; floor is drawn both as a parameter
\* and as a field of the bid request itself
BuilderBids ==
    {[bidder |-> BIDDER_CODE, params |-> a @@ b] @@ c @@ d :
        a \in Opt("inventoryCode",
                  {Str(<<>>), Str(<<"abc">>), Str(<<"a", "&", "floor", "=", "9">>)}),
        b \in Opt("floor", {Num("0"), Num("1.5")}),
        c \in Opt("floor", {Num("1.5")}),
        d \in Opt("sizes", SizeValues)}

\* a second bid request of the same auction
OtherBid ==
    [bidder |-> BIDDER_CODE,
     params |-> [inventoryCode |-> Str(<<"zzz">>), floor |-> Num("9")],
     sizes |-> [list |-> <<<<1, 1>>>>]]

BuilderEnvs ==
    [protocol : {"http:", "https:"},
     activeX : BOOLEAN,
     flashMime : {"none", "disabled", "enabled"},
     referrer : {Str(<<>>), Str(<<"http://p.example/">>),
                 Str(<<"http://p.example/", "?", "a", "=", "1", "&">>)},
     now : {1000}]

VideoPayload ==
    [player_width |-> 640, player_height |-> 480, asset_url |-> "http://v.example/ad.vast"]

Image == [url |-> "http://i.example/i.png", width |-> 100, height |-> 50]
Link == [url |-> "http://c.example/", click_trackers |-> <<"http://c.example/t">>]

NativePayloads ==
    {[title |-> "t", desc |-> "d", ctatext |-> "go", sponsored |-> "s",
      main_img |-> Image, icon |-> Image, link |-> Link,
      impression_trackers |-> <<"http://n.example/imp">>],
     [title |-> "t", desc |-> "d", main_img |-> Image],
     [title |-> "t", link |-> Link]}

BannerPayload == [width |-> 300, height |-> 250, content |-> <<"<div>ad</div>">>]

ImpUrl == <<"http://t.example/imp">>
ImpUrl2 == <<"http://t.example/i", "\"", "2">>

TrackerLists ==
    {<<>>,
     <<[click_urls |-> <<>>]>>,
     <<[impression_urls |-> <<>>]>>,
     <<[impression_urls |-> <<ImpUrl>>]>>,
     <<[impression_urls |-> <<ImpUrl2, ImpUrl>>]>>,
     <<[impression_urls |-> <<ImpUrl>>], [impression_urls |-> <<ImpUrl2>>]>>}

RtbObjects ==
    {v @@ n @@ b : v \in Opt("video", {VideoPayload}),
                   n \in Opt("native", NativePayloads),
                   b \in Opt("banner", {BannerPayload})}
    \cup {[banner |-> BannerPayload, trackers |-> t] : t \in TrackerLists}

Cpms == {0, 1}
AdTypes == SUPPORTED_AD_TYPES \cup {"audio"}
RendererId == "r1"
RendererUrl == "http://r.example/r.js"

\* the ads of a tag, before their creative ids are given
FullAds ==
    {[cpm |-> c, ad_type |-> t] @@ r @@ i @@ u :
        c \in Cpms, t \in AdTypes,
        r \in Opt("rtb", {Null, False} \cup RtbObjects),
        i \in Opt("renderer_id", {RendererId}),
        u \in Opt("renderer_url", {RendererUrl})}

BannerRtb == [banner |-> BannerPayload, trackers |-> <<[impression_urls |-> <<ImpUrl>>]>>]

\* the ads that tags of several ads and bodies of several tags are built of
CoreAds ==
    {[cpm |-> 1, ad_type |-> "banner"],
     [cpm |-> 1, ad_type |-> "video", rtb |-> False],
     [cpm |-> 1, ad_type |-> "banner", rtb |-> BannerRtb],
     [cpm |-> 0, ad_type |-> "banner", rtb |-> BannerRtb],
     [cpm |-> 1, ad_type |-> "audio", rtb |-> BannerRtb],
     [cpm |-> 1, ad_type |-> "video", rtb |-> [video |-> VideoPayload],
      renderer_id |-> RendererId, renderer_url |-> RendererUrl]}

\* tag i of a response: its uuid, and a creative id for each of its ads
MakeTag(i, shape) ==
    IF shape = Null THEN Null
    ELSE IF ~Has(shape, "ads") THEN [uuid |-> i]
    ELSE [uuid |-> i,
          ads |-> [j \in 1..Len(shape.ads) |->
                     [creative_id |-> <<i, j>>] @@ shape.ads[j]]]

MakeTags(shapes) == [i \in 1..Len(shapes) |-> MakeTag(i, shapes[i])]

OneAdTags == {[ads |-> <<a>>] : a \in FullAds}
ManyAdTags == {[ads |-> l] : l \in SeqUpTo(CoreAds, MaxAds)}
SmallTags == {Null, <<>>} \cup {[ads |-> l] : l \in SeqUpTo(CoreAds, 1)}

ErrorFields == Opt("error", {Str(<<"no fill">>)})

\* the response bodies: none, null, without tags; one tag of one ad of any
\* shape; one tag of several ads; several tags
Bodies ==
    {Undefined, Null}
    \cup ErrorFields
    \cup {[tags |-> MakeTags(<<t>>)] : t \in OneAdTags}
    \cup {[tags |-> MakeTags(<<t>>)] @@ e : t \in ManyAdTags, e \in ErrorFields}
    \cup {[tags |-> MakeTags(l)] @@ e : l \in SeqUpTo(SmallTags, MaxTags), e \in ErrorFields}

RendererFaults == {"none", "install", "setRender", "setEventHandlers"}

\* the auction the response answers: bid i, of ad unit i, is answered by the
\* tag of uuid i
AdUnitCode(i) == Str(<<"div-gpt-ad", ToString(i)>>)

BidderRequest ==
    [bidderCode |-> BIDDER_CODE,
     bids |-> [i \in 1..MaxTags |-> [bidId |-> i, adUnitCode |-> AdUnitCode(i)]]]

ServerResponse(body) == IF body = Undefined THEN <<>> ELSE [body |-> body]

Calls ==
    {[op |-> "isBidRequestValid", args |-> [bid |-> b], env |-> <<>>] :
        b \in ValidatorBids}
    \cup
    {[op |-> "buildRequests", args |-> [bidRequests |-> <<b>> \o rest], env |-> e] :
        b \in BuilderBids, rest \in {<<>>, <<OtherBid>>}, e \in BuilderEnvs}
    \cup
    {[op |-> "interpretResponse",
      args |-> [serverResponse |-> ServerResponse(body),
                request |-> [bidderRequest |-> BidderRequest]],
      env |-> [rendererFault |-> f]] :
        body \in Bodies, f \in RendererFaults}

-----------------------------------------------------------------------------
(* The specification *)

Init ==
    /\ \E c \in Calls : op = c.op /\ args = c.args /\ env = c.env
    /\ pc = "call"
    /\ ret = Undefined
    /\ logs = <<>>

IsBidRequestValid ==
    /\ pc = "call" /\ op = "isBidRequestValid"
    /\ ret' = isBidRequestValid(args.bid)
    /\ logs' = <<LogEntry("console.log", "Is bid request valid: ")>>
    /\ pc' = "returned"
    /\ UNCHANGED <<op, args, env>>

BuildRequests ==
    /\ pc = "call" /\ op = "buildRequests"
    /\ ret' = buildRequestsUrl(args.bidRequests, env)
    /\ logs' = <<LogEntry("logMessage", "tlCall request built: ")>>
    /\ args' = [args EXCEPT !.bidRequests[1] = Put(@, "startTime", env.now)]
    /\ pc' = "returned"
    /\ UNCHANGED <<op, env>>

InterpretResponse ==
    /\ pc = "call" /\ op = "interpretResponse"
    /\ LET r == interpretResponseBody(Get(args.serverResponse, "body"),
                                      args.request.bidderRequest, env.rendererFault)
       IN /\ ret' = IF r.threw THEN Undefined ELSE r.bids
          /\ logs' = r.logs
          /\ pc' = IF r.threw THEN "threw" ELSE "returned"
          /\ args' = IF Has(args.serverResponse, "body")
                     THEN [args EXCEPT !.serverResponse.body = r.body]
                     ELSE args
    /\ UNCHANGED <<op, env>>

Next == IsBidRequestValid \/ BuildRequests \/ InterpretResponse

Spec == Init /\ [][Next]_vars

-----------------------------------------------------------------------------
(* What the properties below speak of *)

Returned(o) == op = o /\ pc = "returned"

FirstBid == args.bidRequests[1]

\* a parameter that is there and is not the empty string
NonEmpty(params, f) == Has(params, f) /\ params[f] # Str(<<>>)

Contains(s, sub) ==
    \E i \in 1..(Len(s) - Len(sub) + 1) : SubSeq(s, i, i + Len(sub) - 1) = sub

\* the places of the url where query parameter key starts
ParamPlaces(url, key) ==
    {i \in 2..(Len(url) - 1) :
        url[i] = key /\ url[i + 1] = "=" /\ url[i - 1] \in {"?", "&"}}

ParamOrder == <<"lib", "v", "inv_code", "floor", "fe", "size", "referrer">>

\* each parameter at most once, in the order of ParamOrder, no trailing '&'
WellFormedQuery(url) ==
    /\ \A a \in 1..Len(ParamOrder) : Cardinality(ParamPlaces(url, ParamOrder[a])) <= 1
    /\ \A a, b \in 1..Len(ParamOrder) :
          a < b => \A i \in ParamPlaces(url, ParamOrder[a]),
                      j \in ParamPlaces(url, ParamOrder[b]) : i < j
    /\ url[Len(url)] # "&"

\* the response body of the call
Body == Get(args.serverResponse, "body")

BodyTags == IF Truthy(Body) /\ Has(Body, "tags") THEN Body.tags ELSE <<>>

\* the ads of tag i
AdsOf(i) ==
    IF Truthy(BodyTags[i]) /\ Has(BodyTags[i], "ads") THEN BodyTags[i].ads ELSE <<>>

\* the bids returned that were built from the ad of creative id c
BidsFrom(c) == {k \in 1..Len(ret) : ret[k].creativeId = c}

\* tag i's first ad is an rtb bid that passes the cpm and ad-type filter
FirstAdSurfaces(i) ==
    /\ AdsOf(i) # <<>>
    /\ Truthy(Get(AdsOf(i)[1], "rtb"))
    /\ AdsOf(i)[1].cpm # 0
    /\ AdsOf(i)[1].ad_type \in {"banner", "video", "native"}

\* the response carries no error and one tag, whose first ad surfaces
OneSurfacingTag == ~Has(Body, "error") /\ Len(BodyTags) = 1 /\ FirstAdSurfaces(1)

TheAd == AdsOf(1)[1]

-----------------------------------------------------------------------------
(* Properties *)

\* C1: isBidRequestValid returns true if and only if params.inventoryCode is
\* non-empty, or params.member and params.invCode are both non-empty; in
\* every other case it returns false.
C1_ValidIffInventoryOrMemberPair ==
    op = "isBidRequestValid" =>
        /\ pc # "threw"
        /\ pc = "returned" =>
             ret = (\/ NonEmpty(args.bid.params, "inventoryCode")
                    \/ (/\ NonEmpty(args.bid.params, "member")
                        /\ NonEmpty(args.bid.params, "invCode")))

\* C1 witness: a bid request without inventoryCode is accepted on its
\* member and invCode
C1_Witness ==
    /\ Returned("isBidRequestValid")
    /\ ~Has(args.bid.params, "inventoryCode")
    /\ NonEmpty(args.bid.params, "member")
    /\ NonEmpty(args.bid.params, "invCode")
    /\ ret = TRUE

\* C2: no bid of the returned list is built from an ad of the response
\* whose cpm is 0 or whose ad_type is none of banner, video, native.
C2_NoBidForZeroCpmOrUnsupportedType ==
    Returned("interpretResponse") =>
        \A i \in 1..Len(BodyTags) : \A j \in 1..Len(AdsOf(i)) :
            (AdsOf(i)[j].cpm = 0 \/ AdsOf(i)[j].ad_type \notin {"banner", "video", "native"})
                => BidsFrom(AdsOf(i)[j].creative_id) = {}

\* C2 witness: a response of two tags, the first holding an rtb bid of cpm
\* 0, of which only the second tag's bid is returned
C2_Witness ==
    /\ Returned("interpretResponse")
    /\ Len(BodyTags) = 2
    /\ AdsOf(1) # <<>>
    /\ Truthy(Get(AdsOf(1)[1], "rtb"))
    /\ AdsOf(1)[1].cpm = 0
    /\ AdsOf(1)[1].ad_type = "banner"
    /\ Len(ret) = 1
    /\ ret[1].requestId = 2

IsSpecExample(bid) ==
    /\ bid.params = [inventoryCode |-> Str(<<"abc">>)]
    /\ Get(bid, "floor") = Num("1.5")
    /\ Get(bid, "sizes") = [list |-> <<<<300, 250>>>>]

\* the same request with the floor among the params
IsParamsExample(bid) ==
    /\ bid.params = [inventoryCode |-> Str(<<"abc">>), floor |-> Num("1.5")]
    /\ Get(bid, "sizes") = [list |-> <<<<300, 250>>>>]

\* C4 as stated: for [{sizes:[[300,250]], params:{inventoryCode:'abc'},
\* floor:1.5}] the url contains inv_code=abc, floor=1.5 and size=300x250;
\* for any first bid request each parameter appears at most once, in
\* order, and the url does not end with '&'.
C4_AsStated ==
    Returned("buildRequests") =>
        /\ IsSpecExample(FirstBid) =>
              /\ Contains(ret, <<"inv_code", "=", "abc">>)
              /\ Contains(ret, <<"floor", "=", "1.5">>)
              /\ Contains(ret, <<"size", "=", "300", "x", "250">>)
        /\ WellFormedQuery(ret)

\* C4 amended: the floor is read from params.  For [{sizes:[[300,250]],
\* params:{inventoryCode:'abc', floor:1.5}}] the url contains inv_code=abc,
\* floor=1.5 and size=300x250; a floor that is only a field of the bid
\* request is not emitted, and floor appears exactly when params.floor is
\* truthy; for any first bid request each parameter appears at most once,
\* in order, and the url does not end with '&'.
C4_FloorFromParams ==
    Returned("buildRequests") =>
        /\ IsParamsExample(FirstBid) =>
              /\ Contains(ret, <<"inv_code", "=", "abc">>)
              /\ Contains(ret, <<"floor", "=", "1.5">>)
              /\ Contains(ret, <<"size", "=", "300", "x", "250">>)
        /\ IsSpecExample(FirstBid) =>
              /\ Contains(ret, <<"inv_code", "=", "abc">>)
              /\ Contains(ret, <<"size", "=", "300", "x", "250">>)
        /\ (ParamPlaces(ret, "floor") # {}) = Truthy(Get(FirstBid.params, "floor"))
        /\ WellFormedQuery(ret)

\* C4 witness: the example with the floor among the params, and a floor
\* field beside them, yields floor=1.5 once
C4_Witness ==
    /\ Returned("buildRequests")
    /\ IsParamsExample(FirstBid)
    /\ Contains(ret, <<"floor", "=", "1.5", "&">>)
    /\ Cardinality(ParamPlaces(ret, "floor")) = 1
    /\ Contains(ret, <<"size", "=", "300", "x", "250">>)

\* C5: for every parsed response body interpretResponse returns a list and
\* lets no exception escape, also when no call into the renderer fails.
C5_NeverThrows ==
    (op = "interpretResponse" /\ env.rendererFault = "none") => pc # "threw"

\* the response is one tag whose first ad is a surfacing video bid with
\* renderer fields
OneOutstreamTag ==
    /\ OneSurfacingTag
    /\ Has(TheAd.rtb, "video")
    /\ Has(TheAd, "renderer_id")
    /\ Has(TheAd, "renderer_url")

\* C6: when Renderer.install, setRender or setEventHandlers raises for a
\* video bid carrying renderer fields, the failure is caught and logged,
\* interpretResponse returns, and the video bid is in the returned list.
C6_RendererFailureContained ==
    (op = "interpretResponse" /\ pc # "call" /\ env.rendererFault # "none"
        /\ OneOutstreamTag) =>
        /\ pc = "returned"
        /\ BidsFrom(TheAd.creative_id) # {}
        /\ Len(logs) >= 1

\* the response is one tag whose first ad is a surfacing bid of ad_type
\* banner with a banner payload and no other
OneBannerTag ==
    /\ OneSurfacingTag
    /\ TheAd.ad_type = "banner"
    /\ Has(TheAd.rtb, "banner")
    /\ ~Has(TheAd.rtb, "video")
    /\ ~Has(TheAd.rtb, "native")

\* rtb.trackers[0].impression_urls[0] is there
HasFirstImpressionUrl(rtb) ==
    /\ Has(rtb, "trackers")
    /\ rtb.trackers # <<>>
    /\ Has(rtb.trackers[1], "impression_urls")
    /\ rtb.trackers[1].impression_urls # <<>>

\* the tracking pixel for a url
PixelFor(url) == <<PixelOpen>> \o encodeURI(url) \o <<PixelClose>>

\* C7: a surfaced banner bid has the banner's width and height, ttl 300,
\* and an ad that is the markup followed by a tracking pixel for
\* rtb.trackers[0].impression_urls[0]; when that url is not there the ad is
\* the markup unchanged, exactly one error is logged, and the bid is still
\* returned.
C7_BannerPixelOrOneError ==
    (op = "interpretResponse" /\ pc # "call" /\ OneBannerTag) =>
        /\ pc = "returned"
        /\ Len(ret) = 1
        /\ ret[1].width = TheAd.rtb.banner.width
        /\ ret[1].height = TheAd.rtb.banner.height
        /\ ret[1].ttl = 300
        /\ IF HasFirstImpressionUrl(TheAd.rtb)
           THEN /\ ret[1].ad = TheAd.rtb.banner.content
                                 \o PixelFor(TheAd.rtb.trackers[1].impression_urls[1])
                /\ logs = <<>>
           ELSE /\ ret[1].ad = TheAd.rtb.banner.content
                /\ Len(logs) = 1
                /\ logs[1].fn = "logError"

\* the response is one tag whose first ad is a surfacing bid with a video
\* payload
OneVideoTag == OneSurfacingTag /\ Has(TheAd.rtb, "video")

\* what a video bid without a renderer looks like
PlainVideoBid(bid, video) ==
    /\ bid.ttl = 3600
    /\ bid.width = video.player_width
    /\ bid.height = video.player_height
    /\ bid.vastUrl = video.asset_url
    /\ bid.descriptionUrl = video.asset_url
    /\ ~Has(bid, "renderer")
    /\ ~Has(bid, "adResponse")

\* C8 as stated: a surfaced video bid without renderer fields has ttl 3600,
\* the player's dimensions, vastUrl and descriptionUrl equal to asset_url,
\* and neither renderer nor adResponse; a renderer is attached only when
\* the bid carries both renderer_id and renderer_url.
C8_AsStated ==
    (Returned("interpretResponse") /\ OneVideoTag) =>
        /\ Len(ret) = 1
        /\ (~Has(TheAd, "renderer_id") /\ ~Has(TheAd, "renderer_url"))
              => PlainVideoBid(ret[1], TheAd.rtb.video)
        /\ Has(ret[1], "renderer")
              => (Has(TheAd, "renderer_id") /\ Has(TheAd, "renderer_url"))

\* C8 amended: a surfaced video bid without renderer_url has ttl 3600, the
\* player's dimensions, vastUrl and descriptionUrl equal to asset_url, and
\* neither renderer nor adResponse, whether or not it carries renderer_id;
\* a renderer is attached only when the bid carries renderer_url.
C8_RendererOnlyWithUrl ==
    (Returned("interpretResponse") /\ OneVideoTag) =>
        /\ Len(ret) = 1
        /\ ~Has(TheAd, "renderer_url") => PlainVideoBid(ret[1], TheAd.rtb.video)
        /\ Has(ret[1], "renderer") => Has(TheAd, "renderer_url")

\* C8 witness: a video bid that carries renderer_id but no renderer_url is
\* returned without a renderer
C8_Witness ==
    /\ Returned("interpretResponse")
    /\ OneVideoTag
    /\ Has(TheAd, "renderer_id")
    /\ ~Has(TheAd, "renderer_url")
    /\ Len(ret) = 1
    /\ PlainVideoBid(ret[1], VideoPayload)

\* the rtb bid of tag i: the first ad of the tag that has an rtb object
RtbBidOf(i) == AdsOf(i)[getRtbBid(BodyTags[i])]

\* tag i holds a surfacing video bid with renderer_id and renderer_url
IsOutstreamTag(i) ==
    /\ getRtbBid(BodyTags[i]) # 0
    /\ RtbBidOf(i).cpm # 0
    /\ RtbBidOf(i).ad_type \in {"banner", "video", "native"}
    /\ Has(RtbBidOf(i).rtb, "video")
    /\ Has(RtbBidOf(i), "renderer_id")
    /\ Has(RtbBidOf(i), "renderer_url")

\* the ad unit of the bid request that tag i answers
AdUnitOfTag(i) == args.request.bidderRequest.bids[BodyTags[i].uuid].adUnitCode

\* C9: the bid of a surfaced video bid b with renderer_id and renderer_url
\* carries a renderer bound to the originating ad unit, and its
\* adResponse.ad.video equals b's rtb.video, also when the tag's ads list
\* has an entry before b.
C9_RendererBoundAndVideoMirrored ==
    (Returned("interpretResponse") /\ env.rendererFault = "none") =>
        \A i \in 1..Len(BodyTags) :
            IsOutstreamTag(i) =>
                \A k \in BidsFrom(RtbBidOf(i).creative_id) :
                    /\ Has(ret[k], "renderer")
                    /\ ret[k].renderer.endedHides = AdUnitOfTag(i)
                    /\ ret[k].adResponse.ad.video = RtbBidOf(i).rtb.video

\* C10: every returned bid has exactly one of ad, vastUrl and native, and
\* that payload and the ttl agree with its mediaType.
C10_PayloadAgreesWithMediaType ==
    Returned("interpretResponse") =>
        \A k \in 1..Len(ret) :
            /\ Cardinality({f \in {"ad", "vastUrl", "native"} : Has(ret[k], f)}) = 1
            /\ ret[k].mediaType = "video" => (Has(ret[k], "vastUrl") /\ ret[k].ttl = 3600)
            /\ ret[k].mediaType = "native" => (Has(ret[k], "native") /\ ret[k].ttl = 300)
            /\ ret[k].mediaType = "banner" => (Has(ret[k], "ad") /\ ret[k].ttl = 300)

====
